---- MODULE Spec2Model ----
(***************************************************************************)
(* popart_dashboard.py: a Streamlit script.  Every widget interaction      *)
(* re-executes the whole script top to bottom; the state is the widget     *)
(* values, the names the script binds (df, df_outside, df_plot) and the    *)
(* page the run has drawn.                                                 *)
(*                                                                         *)
(* Number representation.  Floating-point columns are fixed-point          *)
(* integers: a rate x is the integer x * 10^5 (Incidence 0.01245 is 1245,  *)
(* the percentage 1.24 is 124000); a count c read from the csv is the      *)
(* integer c * 10 (600.9 is 6009).  Values produced by astype(int) / int() *)
(* are plain integers.                                                     *)
(***************************************************************************)
EXTENDS Integers, Sequences, FiniteSets, TLC

VARIABLES fs, option, year_range, vars_to_plot, outside_patch_on, observed_on,
          df, df_outside, df_plot, page

vars == <<fs, option, year_range, vars_to_plot, outside_patch_on, observed_on,
          df, df_outside, df_plot, page>>

\* Bound of the exploration: rows of the two csv files taken together.
MaxTotalRows == 3

\* st.sidebar.slider("Period to show", 1970, 2030, (1990, 2030))
SliderMin == 1970
SliderMax == 2030
SliderDefaultLo == 1990

\* Slider positions the user is moved to (the slider itself has step 1).
YearStops == {SliderMin, (SliderMin + SliderMax) \div 2, SliderMax}

OutsideFile == "Annual_outputs_CL04_Za_C_V1.2_patch1_Rand10_Run1_PCseed0_0_CF.csv"
TrialFile == "Annual_outputs_CL05_Za_A_V1.2_patch0_Rand10_Run1_PCseed0_0.csv"

plotting_dict ==
  [ Incidence |-> [name |-> "HIV incidence", var |-> <<"Incidence">>,
                   multi |-> FALSE, codes |-> <<>>, col |-> <<"#D55E00">>],
    NewCasesThisYear |-> [name |-> "New HIV infections", var |-> <<"NewCasesThisYear">>,
                   multi |-> FALSE, codes |-> <<>>, col |-> <<"#D55E00">>],
    Prevalence |-> [name |-> "HIV prevalence", var |-> <<"Prevalence">>,
                   multi |-> FALSE, codes |-> <<>>, col |-> <<"#D55E00">>],
    PLHIV |-> [name |-> "Number of people living with HIV",
               var |-> <<"NumberPositiveM", "NumberPositiveF", "NumberPositive">>,
               multi |-> TRUE,
               codes |-> <<"Men", "Women", "Total">>,
               col |-> <<"#D55E00", "#0072B2", "#009E73">>],
    HIVDeaths |-> [name |-> "HIV-related deaths",
               var |-> <<"NDied_from_HIV", "NHIV_pos_dead">>,
               multi |-> TRUE,
               codes |-> <<"Deaths from HIV-related causes", "Deaths of PLHIV">>,
               col |-> <<"#D55E00", "#0072B2">>] ]

\* default = ['Incidence', 'NewCasesThisYear', 'PLHIV']
DefaultVars == <<"Incidence", "NewCasesThisYear", "PLHIV">>

\* Multiselect values the user is moved to.
VarChoices == {<<>>, <<"HIVDeaths", "Prevalence">>, DefaultVars}

----------------------------------------------------------------------------
\* Rows of the csv files.

MkRow(y, inc, np, npm, npf, tp, pm, pf, nd, ndh, nhd, nc, pr) ==
  [Year |-> y, Incidence |-> inc, NumberPositive |-> np,
   NumberPositiveM |-> npm, NumberPositiveF |-> npf,
   TotalPopulation |-> tp, PopulationM |-> pm, PopulationF |-> pf,
   N_dead |-> nd, NDied_from_HIV |-> ndh, NHIV_pos_dead |-> nhd,
   NewCasesThisYear |-> nc, Prevalence |-> pr]

RowSet ==
  { MkRow(SliderMin, 1245, 6009, 2500, 3509, 100000, 48000, 52000, 300, 100, 120, 400, 6009),
    MkRow((SliderMin + SliderMax) \div 2, 1535, 5000, 2100, 2900, 110007, 53000, 57007, 310, 90, 130, 380, 4545),
    MkRow(SliderMax, 1500, 6005, 2600, 3405, 110000, 52500, 57500, 320, 70, 110, 300, 5459) }

RECURSIVE SeqsUpTo(_, _)
SeqsUpTo(S, n) ==
  IF n = 0 THEN {<<>>}
  ELSE LET shorter == SeqsUpTo(S, n - 1)
       IN shorter \cup {Append(s, r) : s \in shorter, r \in S}

\* What pd.read_csv finds at a path: a table, no file, or a file it cannot parse.
File(rows) == [status |-> "ok", rows |-> rows]
Absent == [status |-> "absent", rows |-> <<>>]
Unreadable == [status |-> "unreadable", rows |-> <<>>]

\* A name of the script: unbound until its assignment has run.
Bound(rows) == [def |-> TRUE, rows |-> rows]
Unbound == [def |-> FALSE, rows |-> <<>>]

----------------------------------------------------------------------------
\* popart_files = [f for f in sorted(os.listdir(output_dir)) if ".csv" in f]
popart_files(f) ==
  IF f[OutsideFile].status = "absent" THEN <<TrialFile>> ELSE <<OutsideFile, TrialFile>>

SeqToSet(s) == {s[i] : i \in 1..Len(s)}

\* pd.read_csv(join(output_dir, name))
read_csv(f, name) ==
  IF f[name].status = "ok" THEN [ok |-> TRUE, rows |-> f[name].rows, exc |-> "none"]
  ELSE IF f[name].status = "absent"
       THEN [ok |-> FALSE, rows |-> <<>>, exc |-> "FileNotFoundError"]
       ELSE [ok |-> FALSE, rows |-> <<>>, exc |-> "ParserError"]

\* Variant of ReadData that keeps a table already bound to df.
ReadDataCached(prev, f, opt) ==
  IF prev.def THEN [ok |-> TRUE, rows |-> prev.rows, exc |-> "none"] ELSE read_csv(f, opt)

\* df = pd.read_csv(join(output_dir, option)): rebinds df whatever it was bound to.
ReadData(prev, f, opt) == read_csv(f, opt)

\* df_outside = pd.read_csv(join(output_dir, "Annual_outputs_CL04_..._CF.csv"))
ReadOutside(prev, f) == read_csv(f, OutsideFile)

\* Variant of YearMask with a strict lower bound.
YearMaskLoExclusive(rows, yr) ==
  [i \in 1..Len(rows) |-> (rows[i].Year > yr[1]) /\ (rows[i].Year <= yr[2])]

\* (df.Year >= year_range[0]) & (df.Year <= year_range[1])
YearMask(rows, yr) ==
  [i \in 1..Len(rows) |-> (rows[i].Year >= yr[1]) /\ (rows[i].Year <= yr[2])]

\* df[mask]: the rows whose mask entry is True, in order.
RECURSIVE TakeMasked(_, _, _)
TakeMasked(rows, mask, i) ==
  IF i > Len(rows) THEN <<>>
  ELSE IF mask[i] THEN <<rows[i]>> \o TakeMasked(rows, mask, i + 1)
       ELSE TakeMasked(rows, mask, i + 1)

\* Variant of Filter that tests the upper bound only.
FilterUpperOnly(rows, yr) ==
  TakeMasked(rows, [i \in 1..Len(rows) |-> rows[i].Year <= yr[2]], 1)

\* df[(df.Year >= year_range[0]) & (df.Year <= year_range[1])]
Filter(rows, yr) == TakeMasked(rows, YearMask(rows, yr), 1)

\* Variant of FilterOutside that never filters.
FilterOutsideSkipped(rows, yr, outOn) == rows

\* if outside_patch_on: df_outside = df_outside[...]
FilterOutside(rows, yr, outOn) == IF outOn THEN Filter(rows, yr) ELSE rows

----------------------------------------------------------------------------
\* Headline metrics.

NaN == [nan |-> TRUE, v |-> 0]
Num(v) == [nan |-> FALSE, v |-> v]

RECURSIVE FoldMax(_, _, _, _)
FoldMax(rows, col, i, best) ==
  IF i > Len(rows) THEN best
  ELSE FoldMax(rows, col, i + 1, IF rows[i][col] > best THEN rows[i][col] ELSE best)

\* Variant of SeriesMax that takes the value of the last row.
SeriesLast(rows, col) ==
  IF Len(rows) = 0 THEN NaN ELSE Num(rows[Len(rows)][col])

\* Series.max(): the float nan for an empty column, else the largest value.
SeriesMax(rows, col) ==
  IF Len(rows) = 0 THEN NaN ELSE Num(FoldMax(rows, col, 2, rows[1][col]))

\* x * 100
Times100(x) == x * 100

\* round(x, 2): to the nearest multiple of 0.01, ties to the even multiple.
Round2(x) ==
  LET q == x \div 1000
      r == x % 1000
  IN IF r < 500 THEN q * 1000
     ELSE IF r > 500 THEN (q + 1) * 1000
     ELSE IF q % 2 = 0 THEN q * 1000 ELSE (q + 1) * 1000

\* numpy scalar .astype(int): truncation toward zero.
AsInt(c) == IF c >= 0 THEN c \div 10 ELSE -((-c) \div 10)

NoMetrics == [shown |-> FALSE, inc |-> 0, plhiv |-> 0, pop |-> 0]
NoDeltas == [shown |-> FALSE, inc |-> 0, plhiv |-> 0, pop |-> 0]

\* inc_inside, plhiv_inside, pop_inside (and the _outside ones) of a non-empty table.
HeadlineMetrics(rows) ==
  [shown |-> TRUE,
   inc |-> Round2(Times100(SeriesMax(rows, "Incidence").v)),
   plhiv |-> AsInt(SeriesMax(rows, "NumberPositive").v),
   pop |-> AsInt(SeriesMax(rows, "TotalPopulation").v)]

\* Variant of Deltas with the operands exchanged.
DeltasInsideMinusOutside(inside, outside) ==
  [shown |-> TRUE,
   inc |-> Round2(inside.inc - outside.inc),
   plhiv |-> inside.plhiv - outside.plhiv,
   pop |-> inside.pop - outside.pop]

\* delta = round(inc_outside - inc_inside, 2), int(plhiv_outside - plhiv_inside), ...
Deltas(inside, outside) ==
  [shown |-> TRUE,
   inc |-> Round2(outside.inc - inside.inc),
   plhiv |-> outside.plhiv - inside.plhiv,
   pop |-> outside.pop - inside.pop]

----------------------------------------------------------------------------
\* Charts.

\* One melted column: a long-form row per table row.
MeltColumn(rows, x, c) ==
  [i \in 1..Len(rows) |-> [Year |-> rows[i][x], variable |-> c, value |-> rows[i][c]]]

RECURSIVE MeltFrom(_, _, _, _)
MeltFrom(rows, x, y, j) ==
  IF j > Len(y) THEN <<>>
  ELSE MeltColumn(rows, x, y[j]) \o MeltFrom(rows, x, y, j + 1)

\* Variant of Melt that leaves out the last column of y.
MeltDropLast(rows, x, y) == MeltFrom(rows, x, SubSeq(y, 1, Len(y) - 1), 1)

\* data[[x]+y].melt(x, ...): the columns of y one after the other.
Melt(rows, x, y) == MeltFrom(rows, x, y, 1)

Min(a, b) == IF a < b THEN a ELSE b

\* dict(zip(y, codes)): pairs by position, a later pair replacing an earlier one.
ZipDict(y, codes) ==
  LET n == Min(Len(y), Len(codes))
  IN [c \in {y[i] : i \in 1..n} |->
        codes[CHOOSE i \in 1..n : y[i] = c /\ \A k \in 1..n : y[k] = c => k <= i]]

\* df_melt[var_name].replace(mapping, inplace=True): a value equal to a key
\* becomes the key's value (pandas without copy-on-write, where the column
\* is replaced in place).
Replace(long, mapping) ==
  [i \in 1..Len(long) |->
     IF long[i].variable \in DOMAIN mapping
     THEN [long[i] EXCEPT !.variable = mapping[long[i].variable]]
     ELSE long[i]]

add_single_line_chart(data, x, y, line_color) ==
  [mark |-> "single", data |-> MeltColumn(data, x, y),
   domain |-> <<>>, range |-> <<line_color>>]

add_multiple_line_chart(data, x, y, line_color, codes) ==
  [mark |-> "multi", data |-> Replace(Melt(data, x, y), ZipDict(y, codes)),
   domain |-> codes, range |-> line_color]

\* The chart of one entry of vars_to_plot.
IndicatorChart(rows, var) ==
  IF plotting_dict[var].multi
  THEN add_multiple_line_chart(rows, "Year", plotting_dict[var].var,
                               plotting_dict[var].col, plotting_dict[var].codes)
  ELSE add_single_line_chart(rows, "Year", plotting_dict[var].var[1],
                             plotting_dict[var].col[1])

\* df_pop.Population.replace({...}): the recoding of the reshaped population table.
PopRecode ==
  [c \in {"TotalPopulation", "PopulationF", "PopulationM"} |->
     IF c = "TotalPopulation" THEN "Total"
     ELSE IF c = "PopulationF" THEN "Female" ELSE "Male"]

\* The arguments of the "Total population size" chart.
PopY == <<"TotalPopulation", "PopulationF", "PopulationM">>
PopCodes == <<"Total", "Male", "Female">>
PopColors == <<"#D55E00", "#0072B2", "#009E73">>

PopulationChart(rows) ==
  add_multiple_line_chart(rows, "Year", PopY, PopColors, PopCodes)

DeathsChart(rows) == add_single_line_chart(rows, "Year", "N_dead", "#D55E00")

----------------------------------------------------------------------------
\* One execution of the script.

Page0 ==
  [exception |-> "none", inside |-> NoMetrics, outside |-> NoMetrics,
   delta |-> NoDeltas, charts |-> <<>>, population |-> <<>>, deaths |-> <<>>]

Stopped(d, dout, dplot, pg) ==
  [df |-> d, df_outside |-> dout, df_plot |-> dplot, page |-> pg]

\* Lines 110-227: everything after the two tables are filtered.
Draw(d, dout, dplot, vs, outOn) ==
  IF SeriesMax(dplot, "NumberPositive").nan
  THEN \* float('nan') has no astype: the run stops at plhiv_inside
       Stopped(Bound(d), Bound(dout), Bound(dplot),
               [Page0 EXCEPT !.exception = "AttributeError"])
  ELSE
    LET inside == HeadlineMetrics(dplot)
        pg1 == [Page0 EXCEPT !.inside = inside]
    IN IF outOn /\ SeriesMax(dout, "NumberPositive").nan
       THEN Stopped(Bound(d), Bound(dout), Bound(dplot),
                    [pg1 EXCEPT !.exception = "AttributeError"])
       ELSE
         LET outside == HeadlineMetrics(dout)
             pg2 == IF outOn
                    THEN [pg1 EXCEPT !.outside = outside,
                                     !.delta = Deltas(inside, outside)]
                    ELSE pg1
             pg3 == [pg2 EXCEPT
                       !.charts = [k \in 1..Len(vs) |-> IndicatorChart(dplot, vs[k])],
                       !.population = <<PopulationChart(dplot)>>,
                       !.deaths = <<DeathsChart(dplot)>>]
         IN Stopped(Bound(d), Bound(dout), Bound(dplot), pg3)

\* The whole script; prev holds what the names were bound to before the run.
RunScript(prev, f, opt, yr, vs, outOn) ==
  LET r1 == ReadData(prev.df, f, opt)
  IN IF ~r1.ok
     THEN Stopped(Unbound, Unbound, Unbound, [Page0 EXCEPT !.exception = r1.exc])
     ELSE
       LET r2 == ReadOutside(prev.df_outside, f)
       IN IF ~r2.ok
          THEN Stopped(Bound(r1.rows), Unbound, Unbound,
                       [Page0 EXCEPT !.exception = r2.exc])
          ELSE Draw(r1.rows, FilterOutside(r2.rows, yr, outOn),
                    Filter(r1.rows, yr), vs, outOn)

\* A fresh namespace: no name bound.
Fresh == [df |-> Unbound, df_outside |-> Unbound, df_plot |-> Unbound]
Globals == [df |-> df, df_outside |-> df_outside, df_plot |-> df_plot]

\* The rerun that follows every widget change.
Rerun(opt, yr, vs, outOn) ==
  \E r \in {RunScript(Globals, fs, opt, yr, vs, outOn)} :
     /\ df' = r.df
     /\ df_outside' = r.df_outside
     /\ df_plot' = r.df_plot
     /\ page' = r.page

----------------------------------------------------------------------------
\* The session.

Tables == SeqsUpTo(RowSet, MaxTotalRows)

FileSystems ==
  { [n \in {TrialFile, OutsideFile} |-> IF n = TrialFile THEN p[1] ELSE p[2]] :
      p \in { q \in ({File(rows) : rows \in Tables} \cup {Unreadable})
                    \X ({File(rows) : rows \in Tables} \cup {Absent}) :
                Len(q[1].rows) + Len(q[2].rows) <= MaxTotalRows } }

Init ==
  /\ fs \in FileSystems
  /\ option = popart_files(fs)[1]
  /\ year_range = <<SliderDefaultLo, SliderMax>>
  /\ vars_to_plot = DefaultVars
  /\ outside_patch_on = FALSE
  /\ observed_on = FALSE
  /\ LET r == RunScript(Fresh, fs, popart_files(fs)[1],
                        <<SliderDefaultLo, SliderMax>>, DefaultVars, FALSE)
     IN /\ df = r.df
        /\ df_outside = r.df_outside
        /\ df_plot = r.df_plot
        /\ page = r.page

\* st.selectbox("Filename", popart_files)
SelectFile(name) ==
  /\ name \in SeqToSet(popart_files(fs))
  /\ name # option
  /\ option' = name
  /\ Rerun(name, year_range, vars_to_plot, outside_patch_on)
  /\ UNCHANGED <<fs, year_range, vars_to_plot, outside_patch_on, observed_on>>

\* st.sidebar.slider: a pair with lo <= hi inside [1970, 2030]
SetYearRange(lo, hi) ==
  /\ SliderMin <= lo /\ lo <= hi /\ hi <= SliderMax
  /\ <<lo, hi>> # year_range
  /\ year_range' = <<lo, hi>>
  /\ Rerun(option, <<lo, hi>>, vars_to_plot, outside_patch_on)
  /\ UNCHANGED <<fs, option, vars_to_plot, outside_patch_on, observed_on>>

\* st.sidebar.multiselect("Variables", plotting_dict.keys())
SetVars(vs) ==
  /\ vs # vars_to_plot
  /\ vars_to_plot' = vs
  /\ Rerun(option, year_range, vs, outside_patch_on)
  /\ UNCHANGED <<fs, option, year_range, outside_patch_on, observed_on>>

\* st.sidebar.toggle("Overlay surrounding area")
ToggleOutside ==
  /\ outside_patch_on' = ~outside_patch_on
  /\ Rerun(option, year_range, vars_to_plot, ~outside_patch_on)
  /\ UNCHANGED <<fs, option, year_range, vars_to_plot, observed_on>>

\* st.sidebar.toggle("Overlay observed data")
ToggleObserved ==
  /\ observed_on' = ~observed_on
  /\ Rerun(option, year_range, vars_to_plot, outside_patch_on)
  /\ UNCHANGED <<fs, option, year_range, vars_to_plot, outside_patch_on>>

Next ==
  \/ \E name \in {TrialFile, OutsideFile} : SelectFile(name)
  \/ \E lo \in YearStops, hi \in YearStops : SetYearRange(lo, hi)
  \/ \E vs \in VarChoices : SetVars(vs)
  \/ ToggleOutside
  \/ ToggleObserved

Spec == Init /\ [][Next]_vars

----------------------------------------------------------------------------
\* The range filter on its own: the script run with any pair as year_range,
\* including pairs the slider cannot produce.

ApplyRange(lo, hi) ==
  /\ <<lo, hi>> # year_range
  /\ year_range' = <<lo, hi>>
  /\ Rerun(option, <<lo, hi>>, vars_to_plot, outside_patch_on)
  /\ UNCHANGED <<fs, option, vars_to_plot, outside_patch_on, observed_on>>

FilterNext == \E lo \in YearStops, hi \in YearStops : ApplyRange(lo, hi)

FilterSpec == Init /\ [][FilterNext]_vars

----------------------------------------------------------------------------
\* Vocabulary of the properties.

InRange(r, yr) == yr[1] <= r.Year /\ r.Year <= yr[2]

InRangeIdx(T, yr) == {j \in 1..Len(T) : InRange(T[j], yr)}

BothLoaded == fs[option].status = "ok" /\ fs[OutsideFile].status = "ok"

\* (Year, value) pairs of the long-form rows carrying label l, in order.
Labelled(data, l) ==
  LET IsL(r) == r.variable = l
      sel == SelectSeq(data, IsL)
  IN [i \in 1..Len(sel) |-> <<sel[i].Year, sel[i].value>>]

\* (Year, c) pairs of a wide table, in order.
Pairs(T, c) == [i \in 1..Len(T) |-> <<T[i].Year, T[i][c]>>]

\* m is the headline triple of the rows of T inside yr.
IsHeadline(m, T, yr) ==
  LET I == InRangeIdx(T, yr)
      IsMax(i, c) == \A j \in I : T[j][c] <= T[i][c]
  IN /\ \E i \in I : /\ IsMax(i, "Incidence")
                     /\ m.inc % 1000 = 0
                     /\ m.inc - 100 * T[i].Incidence <= 500
                     /\ 100 * T[i].Incidence - m.inc <= 500
     /\ \E i \in I : /\ IsMax(i, "NumberPositive")
                     /\ 10 * m.plhiv <= T[i].NumberPositive
                     /\ T[i].NumberPositive < 10 * m.plhiv + 10
     /\ \E i \in I : /\ IsMax(i, "TotalPopulation")
                     /\ 10 * m.pop <= T[i].TotalPopulation
                     /\ T[i].TotalPopulation < 10 * m.pop + 10

\* The multi-series charts on the page, each with the columns and labels it was given.
MultiCharts ==
  { [chart |-> page.charts[k], y |-> plotting_dict[vars_to_plot[k]].var,
     codes |-> plotting_dict[vars_to_plot[k]].codes] :
       k \in {i \in 1..Len(page.charts) : plotting_dict[vars_to_plot[i]].multi} }
  \cup { [chart |-> page.population[k], y |-> PopY, codes |-> PopCodes] :
           k \in 1..Len(page.population) }

----------------------------------------------------------------------------
\* C1: whenever the filter has run, df_plot holds exactly the rows of the
\* loaded table whose Year lies in [lo, hi], both ends included, in the
\* table's own order: nothing outside is kept, nothing inside is dropped.
C1_FilterExact ==
  df_plot.def =>
    LET T == fs[option].rows
        P == df_plot.rows
    IN /\ df.def /\ df.rows = T
       /\ \A i \in 1..Len(P) : InRange(P[i], year_range)
       /\ \E idx \in [1..Len(P) -> 1..Len(T)] :
            /\ \A i \in 1..Len(P) : P[i] = T[idx[i]]
            /\ \A i, k \in 1..Len(P) : i < k => idx[i] < idx[k]
            /\ {idx[i] : i \in 1..Len(P)} = InRangeIdx(T, year_range)

\* A row on the lower bound is kept while another row of the table is dropped.
C1_Witness ==
  /\ df_plot.def
  /\ Len(df_plot.rows) >= 1
  /\ Len(df_plot.rows) < Len(df.rows)
  /\ \E i \in 1..Len(df_plot.rows) : df_plot.rows[i].Year = year_range[1]

\* C2: when no row of the loaded table lies in the selected range, the
\* metrics fail with an error that is caught: no metric value is displayed
\* and no exception escapes the run.
C2_EmptyRangeCaught ==
  (BothLoaded /\ InRangeIdx(fs[option].rows, year_range) = {}) =>
     (~page.inside.shown /\ page.exception = "none")

\* C3: in every multi-series chart the rows labelled with the label of a
\* source column carry that column's values; in the population chart Male
\* is PopulationM, Female is PopulationF and Total is TotalPopulation.
C3_LabelsMatchColumns ==
  /\ \A k \in 1..Len(page.charts) :
       plotting_dict[vars_to_plot[k]].multi =>
         \A j \in 1..Len(plotting_dict[vars_to_plot[k]].var) :
           Labelled(page.charts[k].data, plotting_dict[vars_to_plot[k]].codes[j])
             = Pairs(df_plot.rows, plotting_dict[vars_to_plot[k]].var[j])
  /\ \A k \in 1..Len(page.population) :
       \A c \in DOMAIN PopRecode :
         Labelled(page.population[k].data, PopRecode[c]) = Pairs(df_plot.rows, c)

\* C4: a multi-series chart over k columns of a filtered table of n rows has
\* n * k long-form rows, and the rows carrying the label of column c,
\* projected to (Year, value), are the (Year, c) pairs of the filtered table.
C4_ReshapeRoundTrip ==
  \A mc \in MultiCharts :
    /\ Len(mc.chart.data) = Len(df_plot.rows) * Len(mc.y)
    /\ \A j \in 1..Len(mc.y) :
         Labelled(mc.chart.data, mc.codes[j]) = Pairs(df_plot.rows, mc.y[j])

\* Two multi-series charts are drawn over a table of at least two rows.
C4_Witness ==
  /\ Len(df_plot.rows) >= 2
  /\ Cardinality(MultiCharts) >= 2

\* C5: for a non-empty filtered table the metrics are displayed and are the
\* maximum of Incidence times 100 rounded to 2 decimals, and the maxima of
\* NumberPositive and TotalPopulation truncated to integers, the maxima
\* being taken over the rows inside the selected range only.
C5_HeadlineMetrics ==
  /\ (df_plot.def /\ Len(df_plot.rows) > 0) => page.inside.shown
  /\ page.inside.shown => IsHeadline(page.inside, fs[option].rows, year_range)

\* Metrics are displayed while a row outside the range has a larger
\* NumberPositive than every row inside it, and the largest Incidence inside
\* the range is not that of the last row.
C5_Witness ==
  /\ page.inside.shown
  /\ \E j \in 1..Len(df.rows) :
       /\ ~InRange(df.rows[j], year_range)
       /\ \A i \in 1..Len(df_plot.rows) :
            df_plot.rows[i].NumberPositive < df.rows[j].NumberPositive
  /\ \E i \in 1..Len(df_plot.rows) :
       df_plot.rows[i].Incidence > df_plot.rows[Len(df_plot.rows)].Incidence

\* C6: when the overlay is on, each displayed delta is the displayed
\* surrounding-area metric minus the displayed trial-community metric, and
\* exchanging the two tables negates every delta.
C6_DeltaAntisymmetric ==
  page.delta.shown =>
    /\ outside_patch_on /\ page.inside.shown /\ page.outside.shown
    /\ page.delta.inc = page.outside.inc - page.inside.inc
    /\ page.delta.plhiv = page.outside.plhiv - page.inside.plhiv
    /\ page.delta.pop = page.outside.pop - page.inside.pop
    /\ LET swapped == Deltas(HeadlineMetrics(df_outside.rows),
                             HeadlineMetrics(df_plot.rows))
       IN /\ swapped.inc = 0 - page.delta.inc
          /\ swapped.plhiv = 0 - page.delta.plhiv
          /\ swapped.pop = 0 - page.delta.pop

\* Deltas are displayed and none of them is zero.
C6_Witness ==
  /\ page.delta.shown
  /\ page.delta.inc # 0 /\ page.delta.plhiv # 0 /\ page.delta.pop # 0

C8_OutsideFailureConfined ==
  ( /\ ~outside_patch_on
    /\ fs[option].status = "ok"
    /\ fs[OutsideFile].status # "ok"
    /\ InRangeIdx(fs[option].rows, year_range) # {} ) =>
      (page.inside.shown /\ page.population # <<>> /\ page.deaths # <<>>)

\* C9: what the names are bound to and what the page shows are those of a
\* run from a fresh namespace under the current selections, whatever the
\* interactions that led here.
C9_RenderFromSelections ==
  LET r == RunScript(Fresh, fs, option, year_range, vars_to_plot, outside_patch_on)
  IN /\ page = r.page
     /\ df = r.df
     /\ df_outside = r.df_outside
     /\ df_plot = r.df_plot

\* Every widget has been moved away from its initial value and the run completed.
C9_Witness ==
  /\ option # popart_files(fs)[1]
  /\ year_range # <<SliderDefaultLo, SliderMax>>
  /\ vars_to_plot # DefaultVars
  /\ outside_patch_on
  /\ observed_on
  /\ page.exception = "none"
  /\ Len(df_plot.rows) > 0

====
